---- MODULE Spec2Model ----
(***************************************************************************)
(* Model of the library GraphQL backend (src/index.js): the context        *)
(* function that authenticates a request, the query and mutation           *)
(* resolvers, and the three collections (Author, Book, User) they use.     *)
(*                                                                         *)
(* Conventions.                                                            *)
(*  - A nullable JavaScript value is a sequence of length <= 1: <<>> is    *)
(*    null/undefined, <<v>> is the value v.                                *)
(*  - A string whose characters the code inspects (the Authorization       *)
(*    header) is a record [text, token]: text is the sequence of the       *)
(*    characters that precede the token, token is the JWT that follows.    *)
(*  - A JWT is [payload, key]: the payload that was signed and the key it  *)
(*    was signed with; verification succeeds when the key is the server's. *)
(*  - A document id is its position in its collection (documents are never *)
(*    deleted), standing for the ObjectId the store assigns.               *)
(*  - The mongoose models (models/Author, models/Book, models/User) are    *)
(*    not part of src/; the operators that stand for them follow spec.md.  *)
(*  - The server library is not part of src/ either: a request for which   *)
(*    the context function returned null reaches its resolver with a       *)
(*    context that has no current user (spec.md section 4.2).              *)
(*  - One thing is decided outside src/index.js and is left open; build    *)
(*    holds it, chosen when the server starts and never changed: whether   *)
(*    the Author collection has a unique index on name (spec.md section 3  *)
(*    says the name is unique, sections 5 and 9 that nothing in the store  *)
(*    prevents duplicates).                                                *)
(***************************************************************************)
EXTENDS Integers, Sequences, FiniteSets, TLC

VARIABLES authors, books, users, issued, reqs, last, build

vars == <<authors, books, users, issued, reqs, last, build>>

-----------------------------------------------------------------------------
(* Bounds of the model *)

MaxUsers == 2
MaxAuthors == 2
MaxBooks == 2

(* Program constants *)

MinAuthorNameLen == 4
MinTitleLen == 5
BearerPrefixLen == 7
AcceptedPassword == "secret"
JWT_SECRET == "server-secret"
BearerPrefix == <<"B", "e", "a", "r", "e", "r", " ">>

(* Input domains *)

AuthorNames == {"Poe", "Ovid", "Homer"}
\* the names editAuthor is asked about: one that no Author can have (too short
\* to be saved) and one that an Author may or may not have yet
EditNames == {"Poe", "Ovid"}
Titles == {"Emma", "Faust"}
Years == {1808}
BornYears == {43}
\* the genres a client gives to the books of an author
GenresOf(name) == IF name = "Homer" THEN <<"drama", "epic">> ELSE <<"epic">>
Usernames == {"al", "bo"}
FavoriteGenres == {"epic"}
Passwords == {"secret", "Secret", ""}
AuthorFilters == {<<>>, <<"">>, <<"Ovid">>}
GenreFilters == {<<>>, <<"">>, <<"drama">>}
Procs == {1, 2}

-----------------------------------------------------------------------------
(* Values *)

None == <<>>
Some(v) == <<v>>

Ok(v) == [kind |-> "ok", error |-> "", code |-> "", value |-> Some(v)]
GraphQLError(message) ==
    [kind |-> "error", error |-> "GraphQLError", code |-> "BAD_USER_INPUT",
     value |-> Some(message)]
TypeError == [kind |-> "error", error |-> "TypeError", code |-> "", value |-> None]
Aborted(name) == [kind |-> "abort", error |-> name, code |-> "", value |-> None]

Range(s) == {s[i] : i \in 1..Len(s)}

-----------------------------------------------------------------------------
(* The document store: Author, Book and User collections (models/*.js,    *)
(* modelled from spec.md section 3 and section 5).                         *)

\* Author.findOne({ name }): the first Author in store order with that name.
AuthorFindOne(as, name) ==
    LET hits == SelectSeq(as, LAMBDA a : a.name = name)
    IN  IF hits = <<>> THEN None ELSE Some(hits[1])

\* new Author({ name }).save(): validates the minimum length and appends; with a
\* unique index on name the store rejects a name it already holds (spec.md
\* section 3), without one it does not (spec.md sections 5, 9).
AuthorSaveNew(as, name, unique) ==
    IF Len(name) < 4
    THEN [ok |-> FALSE, error |-> "ValidationError", docs |-> as, doc |-> None]
    ELSE IF unique /\ AuthorFindOne(as, name) # None
    THEN [ok |-> FALSE, error |-> "MongoServerError", docs |-> as, doc |-> None]
    ELSE LET doc == [id |-> Len(as) + 1, name |-> name, born |-> None]
         IN  [ok |-> TRUE, error |-> "", docs |-> Append(as, doc), doc |-> Some(doc)]

\* author.save() of a loaded Author whose born was set: updates that document.
AuthorSaveBorn(as, id, born) ==
    [i \in 1..Len(as) |-> IF as[i].id = id THEN [as[i] EXCEPT !.born = Some(born)]
                          ELSE as[i]]

\* new Book({ title, published, genres, author }).save()
BookSaveNew(bs, title, published, genres, authorId) ==
    IF Len(title) < 5
    THEN [ok |-> FALSE, docs |-> bs, doc |-> None]
    ELSE LET doc == [id |-> Len(bs) + 1, title |-> title, published |-> published,
                     author |-> authorId, genres |-> genres]
         IN  [ok |-> TRUE, docs |-> Append(bs, doc), doc |-> Some(doc)]

\* Book.find({ author }): the filter value is an Author document (matched by its
\* id) or null (matches only Books without an author, of which there are none).
BookFindByAuthor(bs, author) ==
    IF author = None THEN <<>>
    ELSE SelectSeq(bs, LAMBDA b : b.author = author[1].id)

\* { genres: { $all: [genre] } }
HasGenre(b, genre) == genre \in Range(b.genres)

\* .populate('author'): the reference is replaced by the Author it points to.
Populate(as, b) ==
    LET hits == SelectSeq(as, LAMBDA a : a.id = b.author)
    IN  [b EXCEPT !.author = IF hits = <<>> THEN None ELSE Some(hits[1])]

PopulateAll(as, bs) == [i \in 1..Len(bs) |-> Populate(as, bs[i])]

\* User.findOne({ username })
UserFindOne(us, username) ==
    LET hits == SelectSeq(us, LAMBDA u : u.username = username)
    IN  IF hits = <<>> THEN None ELSE Some(hits[1])

\* User.findById(id)
UserFindById(us, id) ==
    LET hits == SelectSeq(us, LAMBDA u : u.id = id)
    IN  IF hits = <<>> THEN None ELSE Some(hits[1])

\* new User({ username, favoriteGenre }).save(): username is unique.
UserSaveNew(us, username, favoriteGenre) ==
    IF UserFindOne(us, username) # None
    THEN [ok |-> FALSE, docs |-> us, doc |-> None]
    ELSE LET doc == [id |-> Len(us) + 1, username |-> username,
                     favoriteGenre |-> favoriteGenre]
         IN  [ok |-> TRUE, docs |-> Append(us, doc), doc |-> Some(doc)]

-----------------------------------------------------------------------------
(* Tokens (jsonwebtoken) *)

\* jwt.sign(payload, key)
JwtSign(payload, key) == [payload |-> payload, key |-> key]

\* jwt.verify(text, key) where text is the characters `rest` followed by the
\* token: it yields the payload, or throws (None) when the text is not exactly a
\* token signed with key.
JwtVerify(rest, token, key) ==
    IF rest = <<>> /\ token.key = key THEN Some(token.payload) ELSE None

-----------------------------------------------------------------------------
(* Request context (src/index.js 243-255) *)

\* auth.startsWith('Bearer ')
StartsWithBearer(text) ==
    /\ Len(text) >= BearerPrefixLen
    /\ SubSeq(text, 1, BearerPrefixLen) = BearerPrefix

\* auth.substring(7): the characters after the seventh
AfterPrefix(text) == SubSeq(text, BearerPrefixLen + 1, Len(text))

\* a non-empty string is truthy; undefined and '' are not
TruthyHeader(auth) == auth # None /\ (auth[1].text # <<>> \/ auth[1].token # None)

\* decodedToken.id of the verified token
DecodedId(payload) == payload.id

\* context: async ({ req }) => ...   The result is the context value handed to
\* the resolver, or an aborted request when jwt.verify throws.
Context(us, auth) ==
    IF TruthyHeader(auth) /\ StartsWithBearer(auth[1].text)
    THEN LET decodedToken ==
                 IF auth[1].token = None THEN None
                 ELSE JwtVerify(AfterPrefix(auth[1].text), auth[1].token[1], JWT_SECRET)
         IN  IF decodedToken = None
             THEN [kind |-> "abort", ctx |-> None]
             ELSE [kind |-> "ok",
                   ctx |-> Some([currentUser |->
                                   UserFindById(us, DecodedId(decodedToken[1]))])]
    ELSE [kind |-> "ok", ctx |-> None]

\* the null of the context function reaches the resolver as it is
Handed_Mut(ctx) == ctx

\* the context value the server hands to the resolver: what the context function
\* returned, and a context with no current user when it returned null
Handed(ctx) ==
    IF ctx = None THEN Some([currentUser |-> None]) ELSE ctx

-----------------------------------------------------------------------------
(* Resolvers: the value each resolver returns or the error it throws, and   *)
(* the collections it leaves, as functions of the collections and inputs.   *)

\* JavaScript truthiness of an optional string argument (args.author, args.genre)
Truthy(arg) == arg # None /\ arg[1] # ""

\* Query.me: context.currentUser; reading a property of a null context throws.
MeRun(ctx) == IF ctx = None THEN TypeError ELSE Ok(ctx[1].currentUser)

\* Query.bookCount, Query.authorCount
BookCountRun(bs) == Ok(Len(bs))
AuthorCountRun(as) == Ok(Len(as))

\* the filter allBooks hands to Book.find, applied to the Book collection as it
\* is when the store answers; author is the result of Author.findOne
AllBooksFilter(bs, args, author) ==
    IF Truthy(args.author) /\ Truthy(args.genre)
    THEN SelectSeq(BookFindByAuthor(bs, author), LAMBDA b : HasGenre(b, args.genre[1]))
    ELSE IF Truthy(args.author)
    THEN BookFindByAuthor(bs, author)
    ELSE IF Truthy(args.genre)
    THEN SelectSeq(bs, LAMBDA b : HasGenre(b, args.genre[1]))
    ELSE bs

\* counts every Book instead of the Books of this Author
AuthorEntry_Mut(bs, author) ==
    [id |-> author.id, name |-> author.name, born |-> author.born,
     bookCount |-> Len(bs)]

\* the object allAuthors builds for one Author once its Book.find has answered
AuthorEntry(bs, author) ==
    [id |-> author.id, name |-> author.name, born |-> author.born,
     bookCount |-> Len(BookFindByAuthor(bs, Some(author)))]

\* the conditions addBook and editAuthor test
\* tests the context instead of its current user
NoCurrentUser_Mut(ctx) == ctx = None
NoCurrentUser(ctx) == ctx[1].currentUser = None
AuthorMissing(author) == author = None
\* off by one: a name of exactly the minimum length is rejected
AuthorNameTooShort_Mut(name) == Len(name) <= MinAuthorNameLen
AuthorNameTooShort(name) == Len(name) < MinAuthorNameLen
\* the threshold of the earlier revision: a title of 4 characters passes
TitleTooShort_Mut(title) == Len(title) < MinTitleLen - 1
TitleTooShort(title) == Len(title) < MinTitleLen

InvalidToken == GraphQLError("Invalid token.")
NameError == GraphQLError("Author's name should be at least 4 characters long.")
TitleError == GraphQLError("Book's title should be at least 5 characters long.")
\* thrown without extensions: the error carries no BAD_USER_INPUT code
UserMissing_Mut ==
    [kind |-> "error", error |-> "GraphQLError", code |-> "",
     value |-> Some("The user does not exist.")]
UserMissing == GraphQLError("The user does not exist.")
StoreError == [kind |-> "error", error |-> "ValidationError", code |-> "", value |-> None]
\* E11000 duplicate key: the unique index rejected the document
DuplicateKey == [kind |-> "error", error |-> "MongoServerError", code |-> "", value |-> None]

\* addBook and editAuthor before their first await: the outcome when the resolver
\* stops there, else None.  Reading currentUser of a null context throws.
AddBookEntry(ctx) ==
    IF ctx = None THEN Some(TypeError)
    ELSE IF NoCurrentUser(ctx) THEN Some(InvalidToken)
    ELSE None

\* Mutation.createUser
CreateUserRun(us, args) ==
    LET saved == UserSaveNew(us, args.username, args.favoriteGenre)
    IN  IF saved.ok
        THEN [result |-> Ok(saved.doc[1]), users |-> saved.docs]
        ELSE [result |-> GraphQLError("User creation failed."), users |-> us]

\* userForToken of login
UserForToken(user) == [username |-> user.username, id |-> user.id]

\* the password is not compared
LoginRun_Mut(us, args) ==
    LET user == UserFindOne(us, args.username)
    IN  IF user = None
        THEN GraphQLError("Wrong credentials.")
        ELSE Ok([value |-> JwtSign(UserForToken(user[1]), JWT_SECRET)])

\* Mutation.login
LoginRun(us, args) ==
    LET user == UserFindOne(us, args.username)
    IN  IF user = None \/ args.password # AcceptedPassword
        THEN GraphQLError("Wrong credentials.")
        ELSE Ok([value |-> JwtSign(UserForToken(user[1]), JWT_SECRET)])

-----------------------------------------------------------------------------
(* Requests.  The server handles requests concurrently: a resolver runs    *)
(* until it awaits a store operation and continues when the store answers, *)
(* and between the two any other request may take steps.  One action is    *)
(* one store operation of one request together with the resolver code that *)
(* runs up to the next await.  reqs[p] is the request in slot p: the       *)
(* resolver it runs (op), the await it waits at (pc), its local variables  *)
(* (author, book, found, entries) and, once it has finished, its result.   *)
(* Three fields are history: known says that an Author with the name the   *)
(* mutation is about existed when the request arrived, wrote lists the     *)
(* writes the request has made, clean says that no other request has       *)
(* written to the store since the request arrived.                         *)

\* a token signed by someone who does not hold the server's secret
Forged == JwtSign([username |-> "al", id |-> 1], "other-secret")

\* the Authorization headers a client can send: none, or some characters followed
\* by a token it holds (one that login returned, or a forged one)
Headers ==
    {None}
      \cup {Some([text |-> BearerPrefix, token |-> Some(t)]) : t \in issued \cup {Forged}}
      \cup {Some([text |-> pre, token |-> Some(t)]) :
              pre \in {<<"B", "a", "s", "i", "c", " ">>, BearerPrefix \o <<" ">>},
              t \in issued}

\* the resolvers that never read the context are tried without a header (the
\* context function is the same for every operation)
PlainHeaders == {None}

\* addBook and editAuthor read of the context only whether it has a current
\* user: they are tried without a header, with a header that does not start
\* with 'Bearer ' and with the token of a user
UserHeaders ==
    {None, Some([text |-> <<"B", "a", "s", "i", "c", " ">>, token |-> None])}
      \cup {Some([text |-> BearerPrefix, token |-> Some(t)]) : t \in issued}

IdleReq ==
    [pc |-> "idle", op |-> "", header |-> None, args |-> None, author |-> None,
     book |-> None, found |-> <<>>, entries |-> <<>>, result |-> None,
     known |-> FALSE, wrote |-> <<>>, clean |-> TRUE]

\* one write of a request: a new document, or the born field of an Author
NewAuthor(doc) == [coll |-> "Author", id |-> doc.id, field |-> "new"]
NewBook(doc) == [coll |-> "Book", id |-> doc.id, field |-> "new"]
BornOf(id) == [coll |-> "Author", id |-> id, field |-> "born"]

AbortedByContext == Aborted("JsonWebTokenError")

\* what is decided outside src/index.js
Builds == [uniqueName : BOOLEAN]

Init ==
    /\ authors = <<>>
    /\ books = <<>>
    /\ users = <<>>
    /\ issued = {}
    /\ reqs = [p \in Procs |-> IdleReq]
    /\ last = [op |-> "init", header |-> None, args |-> None, result |-> Ok(0)]
    /\ build \in Builds

\* the request in slot p as it is when it arrives
Arrived(op, auth, args) ==
    [IdleReq EXCEPT !.op = op, !.header = auth, !.args = args]

\* the request has finished with this result; its local variables are gone
Finished(req, result) ==
    [req EXCEPT !.pc = "done", !.result = Some(result), !.author = None,
                !.book = None, !.found = <<>>, !.entries = <<>>]

\* request p has written to the store: every other request in flight has been
\* interleaved with a write
Written(p, rs) ==
    [q \in Procs |-> IF q # p /\ rs[q].pc # "idle" THEN [rs[q] EXCEPT !.clean = FALSE]
                     ELSE rs[q]]

\* a request for a resolver that does not read the context arrives: the context
\* function runs, then the resolver up to its first await
Start(p, op, auth, args, pc) ==
    /\ reqs[p].pc = "idle"
    /\ reqs' = [reqs EXCEPT ![p] =
                  IF Context(users, auth).kind = "abort"
                  THEN Finished(Arrived(op, auth, args), AbortedByContext)
                  ELSE [Arrived(op, auth, args) EXCEPT !.pc = pc]]
    /\ UNCHANGED <<authors, books, users, issued, last, build>>

\* a request for addBook or editAuthor arrives
StartMutation(p, op, auth, args, name) ==
    /\ reqs[p].pc = "idle"
    /\ LET c == Context(users, auth)
           ctx == Handed(c.ctx)
           req == [Arrived(op, auth, args) EXCEPT
                     !.known = AuthorFindOne(authors, name) # None]
       IN  reqs' = [reqs EXCEPT ![p] =
                      IF c.kind = "abort"
                      THEN Finished(req, AbortedByContext)
                      ELSE IF AddBookEntry(ctx) # None
                      THEN Finished(req, AddBookEntry(ctx)[1])
                      ELSE [req EXCEPT !.pc = "findOne"]]
    /\ UNCHANGED <<authors, books, users, issued, last, build>>

(* Query.bookCount, Query.authorCount *)

BookCountStart(p) ==
    \E auth \in PlainHeaders : Start(p, "bookCount", auth, None, "countDocuments")

AuthorCountStart(p) ==
    \E auth \in PlainHeaders : Start(p, "authorCount", auth, None, "countDocuments")

\* Book.collection.countDocuments() answers
BookCount(p) ==
    /\ reqs[p].pc = "countDocuments"
    /\ reqs[p].op = "bookCount"
    /\ reqs' = [reqs EXCEPT ![p] = Finished(@, BookCountRun(books))]
    /\ UNCHANGED <<authors, books, users, issued, last, build>>

\* Author.collection.countDocuments() answers
AuthorCount(p) ==
    /\ reqs[p].pc = "countDocuments"
    /\ reqs[p].op = "authorCount"
    /\ reqs' = [reqs EXCEPT ![p] = Finished(@, AuthorCountRun(authors))]
    /\ UNCHANGED <<authors, books, users, issued, last, build>>

(* Query.allBooks *)

\* with an author filter the resolver awaits Author.findOne first
AllBooksStart(p) ==
    \E auth \in PlainHeaders, a \in AuthorFilters, g \in GenreFilters :
        Start(p, "allBooks", auth, Some([author |-> a, genre |-> g]),
              IF Truthy(a) THEN "findOne" ELSE "find")

\* Author.findOne answers
AllBooksFindOne(p) ==
    /\ reqs[p].pc = "findOne"
    /\ reqs[p].op = "allBooks"
    /\ reqs' = [reqs EXCEPT ![p].pc = "find",
                            ![p].author = AuthorFindOne(authors, reqs[p].args[1].author[1])]
    /\ UNCHANGED <<authors, books, users, issued, last, build>>

\* Book.find answers
AllBooksFind(p) ==
    /\ reqs[p].pc = "find"
    /\ reqs[p].op = "allBooks"
    /\ reqs' = [reqs EXCEPT ![p].pc = "populate",
                            ![p].found = AllBooksFilter(books, reqs[p].args[1],
                                                        reqs[p].author)]
    /\ UNCHANGED <<authors, books, users, issued, last, build>>

\* the Authors the Books found refer to are read, and the resolver returns
AllBooksPopulate(p) ==
    /\ reqs[p].pc = "populate"
    /\ reqs[p].op = "allBooks"
    /\ reqs' = [reqs EXCEPT ![p] = Finished(@, Ok(PopulateAll(authors, reqs[p].found)))]
    /\ UNCHANGED <<authors, books, users, issued, last, build>>

(* Query.allAuthors *)

AllAuthorsStart(p) ==
    \E auth \in PlainHeaders : Start(p, "allAuthors", auth, None, "find")

\* Author.find({}) answers; the resolver issues one Book.find per Author and
\* returns the promises, which the server awaits
AllAuthorsFind(p) ==
    /\ reqs[p].pc = "find"
    /\ reqs[p].op = "allAuthors"
    /\ reqs' = [reqs EXCEPT ![p] =
                  IF authors = <<>>
                  THEN Finished(@, Ok(<<>>))
                  ELSE [@ EXCEPT !.pc = "bookFind", !.found = authors,
                                 !.entries = [i \in 1..Len(authors) |-> None]]]
    /\ UNCHANGED <<authors, books, users, issued, last, build>>

\* the Book.find of one of the Authors answers; the response is complete when
\* every one has answered
AllAuthorsBookFind(p) ==
    /\ reqs[p].pc = "bookFind"
    /\ reqs[p].op = "allAuthors"
    /\ \E i \in 1..Len(reqs[p].found) :
          /\ reqs[p].entries[i] = None
          /\ LET entries == [reqs[p].entries EXCEPT
                               ![i] = Some(AuthorEntry(books, reqs[p].found[i]))]
             IN  reqs' = [reqs EXCEPT ![p] =
                            IF \A j \in 1..Len(entries) : entries[j] # None
                            THEN Finished(@, Ok([j \in 1..Len(entries) |-> entries[j][1]]))
                            ELSE [@ EXCEPT !.entries = entries]]
    /\ UNCHANGED <<authors, books, users, issued, last, build>>

(* Mutation.addBook *)

AddBookArgs ==
    {[title |-> t, author |-> a, published |-> y, genres |-> GenresOf(a)] :
        t \in Titles, a \in AuthorNames, y \in Years}

\* the request may still save a new Author: it waits for author.save, or for
\* Author.findOne with a name the store does not hold and would accept
MayCreateAuthor(req) ==
    /\ req.op = "addBook"
    /\ \/ req.pc = "saveAuthor"
       \/ /\ req.pc = "findOne"
          /\ ~AuthorNameTooShort(req.args[1].author)
          /\ AuthorFindOne(authors, req.args[1].author) = None

\* the request may still save a Book
MaySaveBook(req) ==
    /\ req.op = "addBook"
    /\ req.pc \in {"findOne", "saveAuthor", "saveBook"}
    /\ ~TitleTooShort(req.args[1].title)

\* the collections stay within the bounds of the exploration when every request
\* in flight saves what it may save
Room ==
    /\ Len(authors) + Cardinality({q \in Procs : MayCreateAuthor(reqs[q])}) <= MaxAuthors
    /\ Len(books) + Cardinality({q \in Procs : MaySaveBook(reqs[q])}) <= MaxBooks

\* an addBook request arrives
AddBookStart(p) ==
    \E auth \in UserHeaders, args \in AddBookArgs :
        StartMutation(p, "addBook", auth, Some(args), args.author)

\* Author.findOne answers; addBook runs on to author.save or to book.save
AddBookFindOne(p) ==
    /\ reqs[p].pc = "findOne"
    /\ reqs[p].op = "addBook"
    /\ LET args == reqs[p].args[1]
           found == AuthorFindOne(authors, args.author)
       IN  reqs' = [reqs EXCEPT ![p] =
                      IF AuthorMissing(found)
                      THEN IF AuthorNameTooShort(args.author)
                           THEN Finished(@, NameError)
                           ELSE [@ EXCEPT !.pc = "saveAuthor"]
                      ELSE IF TitleTooShort(args.title)
                      THEN Finished(@, TitleError)
                      ELSE [@ EXCEPT !.pc = "saveBook", !.author = found]]
    /\ UNCHANGED <<authors, books, users, issued, last, build>>

\* author.save() is applied; addBook runs on to the title check
AddBookSaveAuthor(p) ==
    /\ reqs[p].pc = "saveAuthor"
    /\ reqs[p].op = "addBook"
    /\ LET args == reqs[p].args[1]
           saved == AuthorSaveNew(authors, args.author, build.uniqueName)
       IN  /\ authors' = saved.docs
           /\ reqs' =
                 IF ~saved.ok
                 THEN [reqs EXCEPT ![p] =
                         Finished(@, IF saved.error = "MongoServerError"
                                     THEN DuplicateKey ELSE StoreError)]
                 ELSE Written(p, [reqs EXCEPT ![p] =
                         IF TitleTooShort(args.title)
                         THEN Finished([@ EXCEPT !.wrote = Append(@, NewAuthor(saved.doc[1]))],
                                       TitleError)
                         ELSE [@ EXCEPT !.pc = "saveBook", !.author = saved.doc,
                                        !.wrote = Append(@, NewAuthor(saved.doc[1]))]])
    /\ UNCHANGED <<books, users, issued, last, build>>

\* book.save() is applied
AddBookSaveBook(p) ==
    /\ reqs[p].pc = "saveBook"
    /\ reqs[p].op = "addBook"
    /\ LET args == reqs[p].args[1]
           saved == BookSaveNew(books, args.title, args.published, args.genres,
                                reqs[p].author[1].id)
       IN  /\ books' = saved.docs
           /\ reqs' =
                 IF ~saved.ok
                 THEN [reqs EXCEPT ![p] = Finished(@, StoreError)]
                 ELSE Written(p, [reqs EXCEPT ![p] =
                         [@ EXCEPT !.pc = "populate", !.book = saved.doc,
                                   !.wrote = Append(@, NewBook(saved.doc[1]))]])
    /\ UNCHANGED <<authors, users, issued, last, build>>

\* the Author the Book refers to is read, and addBook returns the Book
AddBookPopulate(p) ==
    /\ reqs[p].pc = "populate"
    /\ reqs[p].op = "addBook"
    /\ reqs' = [reqs EXCEPT ![p] = Finished(@, Ok(Populate(authors, reqs[p].book[1])))]
    /\ UNCHANGED <<authors, books, users, issued, last, build>>

(* Mutation.editAuthor *)

EditAuthorStart(p) ==
    \E auth \in UserHeaders, name \in EditNames, born \in BornYears :
        StartMutation(p, "editAuthor", auth, Some([name |-> name, setBornTo |-> born]),
                      name)

\* Author.findOne answers; editAuthor sets born on the document it got
EditAuthorFindOne(p) ==
    /\ reqs[p].pc = "findOne"
    /\ reqs[p].op = "editAuthor"
    /\ LET args == reqs[p].args[1]
           found == AuthorFindOne(authors, args.name)
       IN  reqs' = [reqs EXCEPT ![p] =
                      IF AuthorMissing(found)
                      THEN Finished(@, UserMissing)
                      ELSE [@ EXCEPT !.pc = "save",
                                     !.author = Some([found[1] EXCEPT
                                                        !.born = Some(args.setBornTo)])]]
    /\ UNCHANGED <<authors, books, users, issued, last, build>>

\* author.save() is applied: born of the stored document is updated, and
\* editAuthor returns the document it holds
EditAuthorSave(p) ==
    /\ reqs[p].pc = "save"
    /\ reqs[p].op = "editAuthor"
    /\ authors' = AuthorSaveBorn(authors, reqs[p].author[1].id, reqs[p].args[1].setBornTo)
    /\ reqs' = Written(p, [reqs EXCEPT ![p] =
                  Finished([@ EXCEPT !.wrote = Append(@, BornOf(reqs[p].author[1].id))],
                           Ok(reqs[p].author[1]))])
    /\ UNCHANGED <<books, users, issued, last, build>>

\* the response of request p is sent; the slot is free for the next request
Respond(p) ==
    /\ reqs[p].pc = "done"
    /\ reqs' = [reqs EXCEPT ![p] = IdleReq]
    /\ UNCHANGED <<authors, books, users, issued, last, build>>

(* Query.me, Mutation.createUser, Mutation.login: each has at most one store *)
(* operation (User.findById of the context function, user.save, User.findOne) *)
(* and is one step; last records the request and its outcome.                *)

Done(op, auth, args, result) ==
    [op |-> op, header |-> auth, args |-> args, result |-> result]

Me ==
    \E auth \in Headers :
        LET c == Context(users, auth)
        IN  /\ last' = Done("me", auth, None,
                            IF c.kind = "abort" THEN AbortedByContext
                            ELSE MeRun(Handed(c.ctx)))
            /\ UNCHANGED <<authors, books, users, issued, reqs, build>>

CreateUser ==
    \E auth \in PlainHeaders, username \in Usernames, genre \in FavoriteGenres :
        LET c == Context(users, auth)
            args == [username |-> username, favoriteGenre |-> genre]
            r == CreateUserRun(users, args)
        IN  IF c.kind = "abort"
            THEN /\ last' = Done("createUser", auth, Some(args), AbortedByContext)
                 /\ UNCHANGED <<authors, books, users, issued, reqs, build>>
            ELSE /\ Len(r.users) <= MaxUsers
                 /\ users' = r.users
                 /\ last' = Done("createUser", auth, Some(args), r.result)
                 /\ UNCHANGED <<authors, books, issued, reqs, build>>

Login ==
    \E auth \in PlainHeaders, username \in Usernames, password \in Passwords :
        LET c == Context(users, auth)
            args == [username |-> username, password |-> password]
            r == LoginRun(users, args)
        IN  IF c.kind = "abort"
            THEN /\ last' = Done("login", auth, Some(args), AbortedByContext)
                 /\ UNCHANGED <<authors, books, users, issued, reqs, build>>
            ELSE /\ issued' = IF r.kind = "ok" THEN issued \cup {r.value[1].value}
                              ELSE issued
                 /\ last' = Done("login", auth, Some(args), r)
                 /\ UNCHANGED <<authors, books, users, reqs, build>>

\* the steps of the queries on the catalogue, for the request in slot p
QueryStep(p) ==
    \/ BookCountStart(p)
    \/ AuthorCountStart(p)
    \/ BookCount(p)
    \/ AuthorCount(p)
    \/ AllBooksStart(p)
    \/ AllBooksFindOne(p)
    \/ AllBooksFind(p)
    \/ AllBooksPopulate(p)
    \/ AllAuthorsStart(p)
    \/ AllAuthorsFind(p)
    \/ AllAuthorsBookFind(p)

\* the steps of the mutations of the catalogue, for the request in slot p
AddBookStep(p) ==
    \/ AddBookFindOne(p)
    \/ AddBookSaveAuthor(p)
    \/ AddBookSaveBook(p)
    \/ AddBookPopulate(p)

EditAuthorStep(p) ==
    \/ EditAuthorStart(p)
    \/ EditAuthorFindOne(p)
    \/ EditAuthorSave(p)

MutationStep(p) ==
    \/ AddBookStart(p)
    \/ AddBookStep(p)
    \/ EditAuthorStep(p)

Next ==
    \/ Me
    \/ CreateUser
    \/ Login
    \/ \E p \in Procs : QueryStep(p) \/ MutationStep(p) \/ Respond(p)

Spec == Init /\ [][Next]_vars

-----------------------------------------------------------------------------
(* The parts of the server taken alone.  The queries change no collection,   *)
(* and addBook and editAuthor change neither the users nor the tokens, so    *)
(* the catalogue is explored from the store in which one user has been       *)
(* created and has logged in, and authentication without the catalogue.      *)
(* The server accepts requests without limit; the exploration of the         *)
(* catalogue stops at the stores of MaxAuthors Authors and MaxBooks Books:   *)
(* it follows the arrival of an addBook request only into a state with Room, *)
(* and every request it has followed in, it follows to its response.         *)

\* the store after one user was created and has logged in
InitLoggedIn ==
    /\ authors = <<>>
    /\ books = <<>>
    /\ users = CreateUserRun(<<>>, [username |-> "al", favoriteGenre |-> "epic"]).users
    /\ issued = {LoginRun(users, [username |-> "al", password |-> "secret"]).value[1].value}
    /\ reqs = [p \in Procs |-> IdleReq]
    /\ last = [op |-> "init", header |-> None, args |-> None, result |-> Ok(0)]
    /\ build \in Builds

\* addBook and editAuthor requests handled concurrently
\* the arrival of an addBook request, followed while the exploration has room
AddBookStartInRoom(p) == AddBookStart(p) /\ Room'

\* the steps of the mutations that the exploration follows
MutationStepInRoom(p) ==
    \/ AddBookStartInRoom(p)
    \/ AddBookStep(p)
    \/ EditAuthorStep(p)

NextConc == \E p \in Procs : MutationStepInRoom(p) \/ Respond(p)

ConcSpec == InitLoggedIn /\ [][NextConc]_vars

\* addBook and editAuthor requests sent one after the other (slot Writer), each
\* interleaved step by step with the queries of another client (slot Reader)
Writer == 1
Reader == 2

NextCatalog ==
    \/ MutationStepInRoom(Writer) \/ Respond(Writer)
    \/ QueryStep(Reader) \/ Respond(Reader)

CatalogSpec == InitLoggedIn /\ [][NextCatalog]_vars

NextAuth ==
    \/ Me
    \/ CreateUser
    \/ Login

AuthSpec == Init /\ [][NextAuth]_vars

-----------------------------------------------------------------------------
(* Properties.  A property of a call is stated of the requests that have   *)
(* finished (pc = "done") and whose response has not been sent yet.         *)

\* the header does not start with 'Bearer ' (or there is none)
NoBearer(auth) == ~(TruthyHeader(auth) /\ StartsWithBearer(auth[1].text))

\* the header is 'Bearer ' followed by a token that login returned
ValidBearer(auth) ==
    /\ auth # None
    /\ auth[1].text = BearerPrefix
    /\ auth[1].token # None
    /\ auth[1].token[1] \in issued

IsBadUserInput(r) ==
    r.kind = "error" /\ r.error = "GraphQLError" /\ r.code = "BAD_USER_INPUT"

NamesOf(as) == {as[i].name : i \in 1..Len(as)}

CountName(as, name) == Cardinality({i \in 1..Len(as) : as[i].name = name})

\* request p ran resolver op and has finished
Completed(p, op) == reqs[p].pc = "done" /\ reqs[p].op = op

\* request p has finished and no other request wrote to the store meanwhile
Alone(p, op) == Completed(p, op) /\ reqs[p].clean

\* the writes of request p to this collection
WritesTo(p, coll) == SelectSeq(reqs[p].wrote, LAMBDA w : w.coll = coll)

\* C1: a request with no Authorization header, or one that does not start with
\* 'Bearer ', gets from addBook a GraphQL error with code BAD_USER_INPUT, and the
\* call writes nothing to the Author and Book collections.
C1_UnauthenticatedAddBookRejected ==
    \A p \in Procs :
        (Completed(p, "addBook") /\ NoBearer(reqs[p].header)) =>
            /\ IsBadUserInput(reqs[p].result[1])
            /\ reqs[p].wrote = <<>>

\* an addBook sent with a header that does not start with 'Bearer ', while the
\* other request has written an Author, was rejected and wrote nothing
C1_Witness ==
    \E p \in Procs :
        /\ Completed(p, "addBook")
        /\ reqs[p].header # None
        /\ NoBearer(reqs[p].header)
        /\ reqs[p].result[1] = InvalidToken
        /\ reqs[p].wrote = <<>>
        /\ authors # <<>>

\* C2: an authenticated addBook, run with no write of another request interleaved,
\* with an author name of length >= 4 that no Author had and a title of length
\* >= 5 adds exactly one Author with that name and exactly one Book, and returns
\* the Book with that Author as author.
C2_AddBookCreatesAuthorAndBook ==
    \A p \in Procs :
        LET r == reqs[p]
        IN  (/\ Alone(p, "addBook")
             /\ ValidBearer(r.header)
             /\ Len(r.args[1].author) >= 4
             /\ ~r.known
             /\ Len(r.args[1].title) >= 5) =>
                /\ r.result[1].kind = "ok"
                /\ authors # <<>>
                /\ books # <<>>
                /\ r.wrote = <<NewAuthor(authors[Len(authors)]), NewBook(books[Len(books)])>>
                /\ authors[Len(authors)].name = r.args[1].author
                /\ CountName(authors, r.args[1].author) = 1
                /\ books[Len(books)].author = authors[Len(authors)].id
                /\ books[Len(books)].title = r.args[1].title
                /\ r.result[1].value[1].id = books[Len(books)].id
                /\ r.result[1].value[1].author = Some(authors[Len(authors)])
                /\ r.result[1].value[1].author[1].name = r.args[1].author

C2_Witness ==
    \E p \in Procs :
        /\ Alone(p, "addBook")
        /\ ValidBearer(reqs[p].header)
        /\ Len(reqs[p].args[1].author) >= 4
        /\ ~reqs[p].known
        /\ Len(reqs[p].args[1].title) >= 5
        /\ Len(authors) = 2
        /\ \E q \in Procs : q # p /\ reqs[q].pc \notin {"idle", "done"}

\* C3: an authenticated addBook whose title has fewer than 5 characters never
\* saves a Book, whether or not the author name already exists and whatever is
\* interleaved with it, and fails with a GraphQL error with code BAD_USER_INPUT;
\* only when another request wrote to the store meanwhile can it fail otherwise,
\* with the duplicate-key error of the store.
C3_ShortTitleRejected ==
    \A p \in Procs :
        LET r == reqs[p]
        IN  (/\ r.op = "addBook"
             /\ ValidBearer(r.header)
             /\ Len(r.args[1].title) < 5) =>
                /\ r.pc \in {"findOne", "saveAuthor", "done"}
                /\ WritesTo(p, "Book") = <<>>
                /\ r.pc = "done" =>
                      \/ IsBadUserInput(r.result[1])
                      \/ ~r.clean /\ r.result[1] = DuplicateKey

C3_Witness ==
    \E p \in Procs :
        /\ Completed(p, "addBook")
        /\ ValidBearer(reqs[p].header)
        /\ Len(reqs[p].args[1].title) = 4
        /\ reqs[p].known
        /\ books # <<>>
        /\ reqs[p].result[1] = TitleError

\* C4: editAuthor with a name that no Author has (and no write of another request
\* interleaved) always fails with a GraphQL error with code BAD_USER_INPUT and
\* writes nothing; in every case the only thing editAuthor writes is the born
\* field of an Author with that name.
C4_EditAuthorFrame ==
    \A p \in Procs :
        LET r == reqs[p]
        IN  (Completed(p, "editAuthor") /\ r.result[1].kind # "abort") =>
                /\ (~r.known /\ r.clean) => (IsBadUserInput(r.result[1]) /\ r.wrote = <<>>)
                /\ Len(r.wrote) <= 1
                /\ \A k \in 1..Len(r.wrote) :
                      /\ r.wrote[k] = BornOf(r.wrote[k].id)
                      /\ authors[r.wrote[k].id].name = r.args[1].name

\* an authenticated editAuthor for a name no Author has, on a store that holds
\* Authors, failed with the not-found error and wrote nothing
C4_Witness ==
    \E p \in Procs :
        /\ Alone(p, "editAuthor")
        /\ ValidBearer(reqs[p].header)
        /\ ~reqs[p].known
        /\ authors # <<>>
        /\ reqs[p].result[1] = UserMissing
        /\ reqs[p].wrote = <<>>

\* C5: in every state reached by addBook and editAuthor calls sent one after the
\* other, allAuthors (no write interleaved with its reads) returns one entry per
\* Author record, and each entry's bookCount is the number of Books whose author
\* reference resolves to an Author with the entry's name.
C5_AllAuthorsBookCount ==
    (Alone(Reader, "allAuthors") /\ reqs[Reader].result[1].kind = "ok") =>
        LET entries == reqs[Reader].result[1].value[1]
            resolved == PopulateAll(authors, books)
        IN  /\ Len(entries) = Len(authors)
            /\ \A i \in 1..Len(entries) :
                  /\ entries[i].id = authors[i].id
                  /\ entries[i].name = authors[i].name
                  /\ entries[i].born = authors[i].born
                  /\ entries[i].bookCount =
                        Cardinality({j \in 1..Len(resolved) :
                                        /\ resolved[j].author # None
                                        /\ resolved[j].author[1].name = entries[i].name})

C5_Witness ==
    /\ Alone(Reader, "allAuthors")
    /\ reqs[Reader].result[1].kind = "ok"
    /\ Len(reqs[Reader].result[1].value[1]) = 2
    /\ reqs[Reader].result[1].value[1][1].bookCount = 1
    /\ reqs[Reader].result[1].value[1][2].bookCount = 1
    /\ reqs[Writer].pc \notin {"idle", "done"}

\* the Books that satisfy the filters that are given, each with its Author resolved
Matching(as, bs, args) ==
    SelectSeq(PopulateAll(as, bs),
              LAMBDA b : /\ args.author # None =>
                              (b.author # None /\ b.author[1].name = args.author[1])
                         /\ args.genre # None => args.genre[1] \in Range(b.genres))

\* C6: for every store state and pair of filter values, allBooks (no write
\* interleaved with its reads) returns exactly the Books that satisfy each given
\* filter (author name, genre, both, or none); an author name that no Author has
\* yields no Books.
C6_AllBooksFilters ==
    \A p \in Procs :
        LET r == reqs[p]
        IN  (Alone(p, "allBooks") /\ r.result[1].kind = "ok") =>
                /\ Range(r.result[1].value[1]) = Range(Matching(authors, books, r.args[1]))
                /\ (/\ r.args[1].author # None
                    /\ r.args[1].author[1] \notin NamesOf(authors)) =>
                       r.result[1].value[1] = <<>>

\* the context a request gets when it presents the token as a Bearer header
ContextOfToken(t) == Context(users, Some([text |-> BearerPrefix, token |-> Some(t)]))

\* C7: login returns a token if and only if a User with that username exists and
\* the password is the fixed accepted value, and otherwise fails with a GraphQL
\* error with code BAD_USER_INPUT; a returned token presented as a Bearer header
\* on a later request makes that request's currentUser the same User.
C7_LoginAndToken ==
    /\ (last.op = "login" /\ last.result.kind # "abort") =>
          /\ last.result.kind = "ok" <=>
                (/\ last.args[1].username \in {users[i].username : i \in 1..Len(users)}
                 /\ last.args[1].password = "secret")
          /\ last.result.kind # "ok" => IsBadUserInput(last.result)
          /\ last.result.kind = "ok" =>
                LET c == ContextOfToken(last.result.value[1].value)
                IN  /\ c.kind = "ok"
                    /\ c.ctx # None
                    /\ c.ctx[1].currentUser # None
                    /\ c.ctx[1].currentUser[1].username = last.args[1].username
    /\ \A t \in issued :
          LET c == ContextOfToken(t)
          IN  /\ c.kind = "ok"
              /\ c.ctx # None
              /\ c.ctx[1].currentUser # None
              /\ c.ctx[1].currentUser[1].username = t.payload.username
              /\ c.ctx[1].currentUser[1].id = t.payload.id
    /\ (last.op = "me" /\ ValidBearer(last.header)) =>
          /\ last.result.kind = "ok"
          /\ last.result.value[1] # None
          /\ last.result.value[1][1].username = last.header[1].token[1].payload.username

C7_Witness ==
    /\ last.op = "me"
    /\ ValidBearer(last.header)
    /\ last.result.kind = "ok"
    /\ last.result.value[1] # None
    /\ last.result.value[1][1].username = "bo"

\* C8: me returns null, with no error, when the request has no Authorization
\* header or one that does not start with 'Bearer '; it returns the User whose id
\* is in the token when the header carries a valid token; a 'Bearer ' header whose
\* token fails verification aborts the request before any resolver runs.
C8_Me ==
    last.op = "me" =>
        /\ NoBearer(last.header) => last.result = Ok(None)
        /\ ValidBearer(last.header) =>
              last.result = Ok(UserFindById(users, last.header[1].token[1].payload.id))
        /\ (~NoBearer(last.header) /\ ~ValidBearer(last.header)) =>
              last.result.kind = "abort"

\* me answered null to a request whose header does not start with 'Bearer ',
\* although the header carries a token that login returned
C8_Witness ==
    /\ last.op = "me"
    /\ last.header # None
    /\ NoBearer(last.header)
    /\ last.header[1].token # None
    /\ last.header[1].token[1] \in issued
    /\ last.result = Ok(None)

\* C9: an addBook call that fails has persisted no Author and no Book: it leaves
\* the Author collection and the Book collection as they were before the call.
C9_FailedAddBookChangesNothing ==
    \A p \in Procs :
        (Completed(p, "addBook") /\ reqs[p].result[1].kind # "ok") =>
            reqs[p].wrote = <<>>

\* C10: in every reachable state, also when the store operations of two addBook
\* requests interleave, no two Author records have the same name and every Book
\* references an Author record that exists.
C10_UniqueNamesAndReferences ==
    /\ \A i, j \in 1..Len(authors) : authors[i].name = authors[j].name => i = j
    /\ \A k \in 1..Len(books) : \E i \in 1..Len(authors) : authors[i].id = books[k].author

====
